---- MODULE Spec2Model ----
(***************************************************************************)
(* polli.live: the in-memory session store, its ownership protocol, the    *)
(* response ledger, the long-poll handlers and the periodic cleanup, as a  *)
(* state machine.  One action per request handler (or per lock section of  *)
(* a handler that suspends), one for the cleanup task, one for the clock.  *)
(*                                                                         *)
(* Time is counted in whole units; durations of Settings are scaled down   *)
(* (see DefaultSettings).  Strings are TLA+ strings; their byte length is  *)
(* Len, all model strings being ASCII.                                     *)
(***************************************************************************)
EXTENDS Integers, Sequences, FiniteSets, TLC

VARIABLES
    now,                \* Utc::now(), in time units
    settings,           \* SharedState.settings
    sessions,           \* State.sessions : SessionID -> SessionState
    sessions_capacity,  \* State.sessions.capacity()
    arcs,               \* number of Notify objects allocated so far
    handlers,           \* the suspended long-poll requests, per handler slot
    poller,             \* the client that resumes from next_start
    boot,               \* the POST /new request in flight, or its answer
    env,                \* the values the clients send
    swept,              \* the cleanup's interval tick of this moment was served
    last                \* the request served by the last step and its outcome

vars == <<now, settings, sessions, sessions_capacity, arcs, handlers, poller, boot, env, swept, last>>

----------------------------------------------------------------------------
(* Bounds of the model *)

MaxTime == 2            \* the clock stops here
MaxResponses == 2       \* accepted responses per session record
MaxSessionStates == 2   \* SessionState::new calls of the clients' page-sets in a run
MaxInitSessions == 1    \* POST /new requests in a run

(* Inputs of the requests *)

Handlers == {"h1", "h2"}
Poller == "h1"

\* The clients of a run: which handler slots take long-poll requests and
\* the values the requests carry (well-formed identifiers; pages and
\* responses within and beyond the size ceilings).
Responders ==
    [ pollers |-> {"h1"},
      starts |-> 0..MaxResponses,
      waiters |-> {},
      sessions |-> {"a"},
      tokens |-> {"token-one-", "token-two-"},
      users |-> {"u1", "u2"},
      pages |-> {"page 1"},
      notifies |-> {"none"},
      datas |-> {"42", "7"},
      bodies |-> {} ]

Viewers ==
    [ pollers |-> {},
      starts |-> 0..MaxResponses,
      waiters |-> {"h2"},
      sessions |-> {"a"},
      tokens |-> {"token-one-", "token-two-"},
      users |-> {"u1"},
      pages |-> {"page 1", "a</head>b</head>", "a page that is too large"},
      notifies |-> {"none", "true", "false"},
      datas |-> {"42", "too large"},
      bodies |-> {} ]

\* clients that ask for a session (with a body that is no DesiredSession,
\* or with one) next to an owner of two sessions whose ids the random ids
\* can hit
Bootstrappers ==
    [ pollers |-> {},
      starts |-> 0..MaxResponses,
      waiters |-> {},
      sessions |-> {"111111", "1111111"},
      tokens |-> {"token-one-"},
      users |-> {},
      pages |-> {"page 1"},
      notifies |-> {"none"},
      datas |-> {},
      bodies |-> { [parsed |-> FALSE, session |-> "", token |-> ""],
                   [parsed |-> TRUE, session |-> "111111", token |-> "token-one-"],
                   [parsed |-> TRUE, session |-> "111111", token |-> "token-two-"] } ]

\* a client that asks for the session it owns, while its page is waited for
Primers ==
    [ pollers |-> {},
      starts |-> 0..MaxResponses,
      waiters |-> {"h2"},
      sessions |-> {"111111"},
      tokens |-> {"token-one-"},
      users |-> {"u1"},
      pages |-> {"page 1"},
      notifies |-> {"none"},
      datas |-> {"42"},
      bodies |-> { [parsed |-> TRUE, session |-> "111111", token |-> "token-one-"] } ]

\* a string of 101 bytes
TooLong ==
    "xxxxxxxxxxxxxxxxxxxxxxxxxxxxxxxxxxxxxxxxxxxxxxxxxxxxxxxxxxxxxxxxxxxxxxxxxxxxxxxxxxxxxxxxxxxxxxxxxxxxx"

\* clients whose identifiers and tokens are empty, short or too long, with
\* no token that a page-set accepts
Strangers ==
    [ pollers |-> {"h1"},
      starts |-> 0..MaxResponses,
      waiters |-> {"h2"},
      sessions |-> {"", "a", TooLong},
      tokens |-> {"short", TooLong},
      users |-> {"", "u1", TooLong},
      pages |-> {"page 1"},
      notifies |-> {"none"},
      datas |-> {"42"},
      bodies |-> {} ]

\* two requests that poll one session, from the start or after its first
\* response
Crowd ==
    [ pollers |-> {"h1", "h2"},
      starts |-> {0, 1},
      waiters |-> {},
      sessions |-> {"a"},
      tokens |-> {"token-one-"},
      users |-> {"u1"},
      pages |-> {"page 1"},
      notifies |-> {"none"},
      datas |-> {"42"},
      bodies |-> {} ]

\* the owner of two sessions and a request that polls one of them from the
\* start
Neighbours ==
    [ pollers |-> {"h2"},
      starts |-> {0},
      waiters |-> {},
      sessions |-> {"a", "b"},
      tokens |-> {"token-one-"},
      users |-> {"u1"},
      pages |-> {"page 1"},
      notifies |-> {"none"},
      datas |-> {"42"},
      bodies |-> {} ]

----------------------------------------------------------------------------
(* errors.rs *)

\* status_code with NOT_FOUND for every error of a session id
status_code_not_found(e) ==
    CASE e = "BadUserID" -> 400
      [] e = "BadSessionID" -> 404
      [] e = "SessionIDDoesNotExist" -> 404
      [] e = "BadAccessToken" -> 401
      [] e = "PageTooLarge" -> 413
      [] e = "ResponseTooLarge" -> 413
      [] e = "ServerError" -> 500

status_code(e) ==
    CASE e = "BadUserID" -> 400
      [] e = "BadSessionID" -> 400
      [] e = "SessionIDDoesNotExist" -> 404
      [] e = "BadAccessToken" -> 401
      [] e = "PageTooLarge" -> 413
      [] e = "ResponseTooLarge" -> 413
      [] e = "ServerError" -> 500

Ok == "Ok"

(* access_token.rs, session_id.rs, user_id.rs: Ok or the error *)

AccessToken_from_string(s) ==
    IF Len(s) < 10 \/ Len(s) > 100 THEN "BadAccessToken" ELSE Ok

SessionID_from_string(s) ==
    IF Len(s) = 0 THEN "BadSessionID"
    ELSE IF Len(s) > 100 THEN "BadSessionID"
    ELSE Ok

UserID_from_string(s) ==
    IF Len(s) = 0 THEN "BadUserID"
    ELSE IF Len(s) > 100 THEN "BadUserID"
    ELSE Ok

(* settings.rs: Settings::default, with the durations and sizes scaled down *)
(* to the model's time unit and string sizes; their order is kept where the *)
(* defaults are ordered (token_timeout = session_keep_alive_duration).      *)

DefaultSettings ==
    [ token_timeout |-> 1,
      response_long_poll_duration |-> 1,
      page_update_long_poll_duration |-> 1,
      max_page_size |-> 16,
      max_response_size |-> 2,
      cleanup_interval |-> 1,
      session_keep_alive_duration |-> 1,
      max_memory_usage |-> 1150 ]

(* Servers that are started with other settings, and their clients *)

\* response_long_poll_duration is zero: a poll never waits
Hasty ==
    [ pollers |-> {"h1"},
      starts |-> 0..MaxResponses,
      waiters |-> {},
      sessions |-> {"a"},
      tokens |-> {"token-one-"},
      users |-> {"u1"},
      pages |-> {"page 1"},
      notifies |-> {"none"},
      datas |-> {"42"},
      bodies |-> {},
      settings |-> [DefaultSettings EXCEPT !.response_long_poll_duration = 0] ]

\* sessions are kept alive for longer than the token holds them and than
\* the cutoff of the cleanup under memory pressure
Lingerers ==
    [ pollers |-> {},
      starts |-> {},
      waiters |-> {},
      sessions |-> {"a"},
      tokens |-> {"token-one-", "token-two-"},
      users |-> {"u1"},
      pages |-> {"page 1"},
      notifies |-> {"none"},
      datas |-> {"42"},
      bodies |-> {},
      settings |-> [DefaultSettings EXCEPT !.session_keep_alive_duration = 2] ]

\* the token holds a session for longer than it is kept alive, by one
\* cleanup_interval
Guarded ==
    [ pollers |-> {},
      starts |-> {},
      waiters |-> {},
      sessions |-> {"a"},
      tokens |-> {"token-one-", "token-two-"},
      users |-> {"u1"},
      pages |-> {"page 1"},
      notifies |-> {"none"},
      datas |-> {"42"},
      bodies |-> {},
      settings |-> [DefaultSettings EXCEPT !.token_timeout = 2] ]

\* the same with a cleanup_interval longer than the token holds
Lazy ==
    [ pollers |-> {},
      starts |-> {},
      waiters |-> {},
      sessions |-> {"a"},
      tokens |-> {"token-one-", "token-two-"},
      users |-> {"u1"},
      pages |-> {"page 1"},
      notifies |-> {"none"},
      datas |-> {"42"},
      bodies |-> {},
      settings |-> [DefaultSettings EXCEPT !.token_timeout = 2,
                                           !.cleanup_interval = 3] ]

\* sessions are kept alive for two time units under a memory ceiling that
\* one session with room for responses reaches
Pressed ==
    [ pollers |-> {},
      starts |-> {},
      waiters |-> {},
      sessions |-> {"a"},
      tokens |-> {"token-one-"},
      users |-> {"u1"},
      pages |-> {"page 1"},
      notifies |-> {"none"},
      datas |-> {"42"},
      bodies |-> {},
      settings |-> [DefaultSettings EXCEPT !.session_keep_alive_duration = 2,
                                           !.max_memory_usage = 1100] ]

Clients ==
    {Responders, Viewers, Bootstrappers, Primers, Strangers, Crowd, Neighbours,
     Hasty, Lingerers, Guarded, Lazy, Pressed}

\* the Settings the server of a run is started with
SettingsOf(clients) ==
    IF "settings" \in DOMAIN clients THEN clients.settings ELSE DefaultSettings

----------------------------------------------------------------------------
(* Maps (HashMap) as functions on a finite domain *)

EmptyMap == << >>

Put(m, k, v) == [x \in DOMAIN m \cup {k} |-> IF x = k THEN v ELSE m[x]]

\* HashMap::retain, given the keys that the closure keeps
Retain(m, keys) == [x \in keys |-> m[x]]

Max(a, b) == IF a >= b THEN a ELSE b

\* capacity of a HashMap that was grown to hold n entries
HashMapCapacity(n) ==
    IF n = 0 THEN 0 ELSE IF n <= 3 THEN 3 ELSE IF n <= 7 THEN 7 ELSE 14

\* capacity after an insert that leaves n entries
CapacityAfterInsert(cap, n) == Max(cap, HashMapCapacity(n))

----------------------------------------------------------------------------
(* state.rs *)

\* a new record that starts its ids at 1
SessionState_new_one(access_token, page, k) ==
    [ response_notifier |-> k,
      page_notifier |-> k + 1,
      page |-> page,
      responses |-> EmptyMap,
      responses_capacity |-> 0,
      access_token |-> access_token,
      next_response_id |-> 1,
      last_request |-> now ]

\* SessionState::new; k is the number of Notify objects allocated before
SessionState_new(access_token, page, k) ==
    [ response_notifier |-> k,
      page_notifier |-> k + 1,
      page |-> page,
      responses |-> EmptyMap,
      responses_capacity |-> 0,
      access_token |-> access_token,
      next_response_id |-> 0,
      last_request |-> now ]

\* session_used without the store to last_request
session_used_stale(session) == session

\* SessionState::session_used
session_used(session) == [session EXCEPT !.last_request = now]

\* update without responses.clear()
SessionState_update_keep(session, page) ==
    session_used([session EXCEPT !.page = page])

\* an update that starts the ids of the responses again
SessionState_update_reset(session, page) ==
    session_used([session EXCEPT !.page = page, !.responses = EmptyMap,
                                 !.next_response_id = 0])

\* SessionState::update
SessionState_update(session, page) ==
    session_used([session EXCEPT !.page = page, !.responses = EmptyMap])

----------------------------------------------------------------------------
(* routes/set_page.rs *)

\* static_files::get("polli_live_injection.html"): the file is not part of
\* the sources at hand; a text that is not empty stands for it
polli_live_injection == "<script>"

\* str::rfind: the index of the last occurrence
Find_last(s, pat) ==
    LET hits == {i \in 1..(Len(s) - Len(pat) + 1) : SubSeq(s, i, i + Len(pat) - 1) = pat}
    IN IF hits = {} THEN 0 ELSE CHOOSE i \in hits : \A j \in hits : i >= j

\* str::find: the index (from 1) of the first occurrence of pat in s, 0 if none
Find(s, pat) ==
    LET hits == {i \in 1..(Len(s) - Len(pat) + 1) : SubSeq(s, i, i + Len(pat) - 1) = pat}
    IN IF hits = {} THEN 0 ELSE CHOOSE i \in hits : \A j \in hits : i <= j

\* an insertion that puts the text in twice
InsertStr_twice(s, idx, ins) ==
    SubSeq(s, 1, idx - 1) \o ins \o ins \o SubSeq(s, idx, Len(s))

\* String::insert_str at index idx (from 1)
InsertStr(s, idx, ins) == SubSeq(s, 1, idx - 1) \o ins \o SubSeq(s, idx, Len(s))

\* the page as set_page_route stores it
InjectedPage(page) ==
    LET idx == Find(page, "</head>")
    IN IF idx = 0 THEN page ELSE InsertStr(page, idx, polli_live_injection)


\* query.notify.unwrap_or(true)
unwrap_or_true(notify) == IF notify = "none" THEN TRUE ELSE notify = "true"

\* an error return: nothing is changed
Rejected(e) ==
    [ status |-> status_code(e), sessions |-> sessions,
      capacity |-> sessions_capacity, arcs |-> arcs, fired |-> {},
      branch |-> "Err" ]

\* the comparison of the window with the clock read one unit late
TokenHolds_early(session) ==
    session.last_request + settings.token_timeout > now + 1

\* the comparison of the window with >= in place of >
TokenHolds_inclusive(session) ==
    session.last_request + settings.token_timeout >= now

\* the owner's token still holds the session at this moment
TokenHolds(session) ==
    session.last_request + settings.token_timeout > now

\* set_page_route: the status, the store it leaves, the Notify objects it
\* has allocated, the ones on which it called notify_waiters, and the branch
\* of the match that was taken (insert, new, update, or an Err return)
set_page_route(page, session, notify, token) ==
    IF AccessToken_from_string(token) # Ok THEN Rejected(AccessToken_from_string(token))
    ELSE IF SessionID_from_string(session) # Ok THEN Rejected(SessionID_from_string(session))
    ELSE IF Len(page) > settings.max_page_size THEN Rejected("PageTooLarge")
    ELSE
        LET stored == InjectedPage(page) IN
        IF session \notin DOMAIN sessions
        THEN [ status |-> 200,
               sessions |-> Put(sessions, session, SessionState_new(token, stored, arcs)),
               capacity |-> CapacityAfterInsert(sessions_capacity,
                                                Cardinality(DOMAIN sessions) + 1),
               arcs |-> arcs + 2,
               fired |-> {},
               branch |-> "insert" ]
        ELSE IF sessions[session].access_token # token
        THEN IF TokenHolds(sessions[session])
             THEN Rejected("BadAccessToken")
             ELSE LET fresh == SessionState_new(token, stored, arcs) IN
                  [ status |-> 200,
                    sessions |-> [sessions EXCEPT ![session] = fresh],
                    capacity |-> sessions_capacity,
                    arcs |-> arcs + 2,
                    fired |-> IF unwrap_or_true(notify)
                              THEN {fresh.page_notifier} ELSE {},
                    branch |-> "new" ]
        ELSE [ status |-> 200,
               sessions |-> [sessions EXCEPT
                                ![session] = SessionState_update(@, stored)],
               capacity |-> sessions_capacity,
               arcs |-> arcs,
               fired |-> IF unwrap_or_true(notify)
                         THEN {sessions[session].page_notifier} ELSE {},
               branch |-> "update" ]

----------------------------------------------------------------------------
(* The long-poll handlers: a slot is idle, or holds a request that is      *)
(* between its two lock sections ("ready": it did not have to wait, and    *)
(* runs on without an await) or suspended in its select! ("waiting").      *)

Idle == [pc |-> "idle"]

\* a request that left its first lock section with its guard still alive
Suspend_locked(kind, session, start, notifier, duration, wait) ==
    [ pc |-> IF wait THEN "waiting" ELSE "ready",
      kind |-> kind, session |-> session, start |-> start,
      notifier |-> notifier, deadline |-> now + duration,
      notified |-> FALSE, replaced |-> FALSE, lock |-> TRUE ]

\* a request that has left its first lock section: the block that holds the
\* MutexGuard has ended, the clone of the Notify object is kept, and the
\* request waits in its select! (wait) or runs on
Suspend(kind, session, start, notifier, duration, wait) ==
    [ pc |-> IF wait THEN "waiting" ELSE "ready",
      kind |-> kind, session |-> session, start |-> start,
      notifier |-> notifier, deadline |-> now + duration,
      notified |-> FALSE, replaced |-> FALSE, lock |-> FALSE ]

\* state.lock() returns: no request holds a MutexGuard
LockFree == \A h \in Handlers : handlers[h].pc # "idle" => ~handlers[h].lock

\* a select! that returns before a branch is ready
Runnable_early(h) == handlers[h].pc \in {"ready", "waiting"}

\* the request of slot h can run: it never awaited, or a branch of its
\* select! is ready
Runnable(h) ==
    \/ handlers[h].pc = "ready"
    \/ /\ handlers[h].pc = "waiting"
       /\ (handlers[h].notified \/ now >= handlers[h].deadline)

\* the single worker thread is inside no handler (start_server: workers(1))
NoHandlerRunning == \A h \in Handlers : handlers[h].pc # "ready"

\* Notify::notify_one: a single waiter of the Notify objects of fired wakes
notify_one(fired, session, replacing) ==
    LET waiting == {h \in Handlers : /\ handlers[h].pc = "waiting"
                                     /\ handlers[h].notifier \in fired}
    IN [h \in Handlers |->
          IF waiting # {} /\ h = (CHOOSE g \in waiting : TRUE)
          THEN [handlers[h] EXCEPT !.notified = TRUE]
          ELSE handlers[h]]

\* Notify::notify_waiters on each Notify object of fired: every Notified
\* future that exists on it completes.  replaced notes, for a page waiter of
\* this session, that a notifying page-set replaced the page during its wait.
notify_waiters(fired, session, replacing) ==
    [h \in Handlers |->
        IF handlers[h].pc # "waiting" THEN handlers[h]
        ELSE [handlers[h] EXCEPT
                !.notified = @ \/ handlers[h].notifier \in fired,
                !.replaced = @ \/ (/\ replacing
                                   /\ handlers[h].kind = "wait_for_page"
                                   /\ handlers[h].session = session
                                   /\ now < handlers[h].deadline)]]

----------------------------------------------------------------------------
(* POST /page *)

SetPage(page, session, notify, token) ==
    /\ NoHandlerRunning
    /\ LockFree
    /\ LET out == set_page_route(page, session, notify, token) IN
        /\ out.arcs <= 2 * MaxSessionStates
        /\ sessions' = out.sessions
        /\ sessions_capacity' = out.capacity
        /\ arcs' = out.arcs
        /\ handlers' = notify_waiters(out.fired, session,
                                      /\ out.status = 200
                                      /\ session \in DOMAIN sessions
                                      /\ unwrap_or_true(notify))
        /\ last' = [ op |-> "set_page", page |-> page, session |-> session,
                     notify |-> unwrap_or_true(notify), token |-> token,
                     status |-> out.status, fired |-> out.fired,
                     branch |-> out.branch ]
    /\ UNCHANGED <<now, settings, poller, boot, env, swept>>

\* get_page_route answering an unknown session with an empty page
get_page_route_blank(session) ==
    IF SessionID_from_string(session) # Ok
    THEN [status |-> status_code(SessionID_from_string(session)), body |-> "BadSessionID"]
    ELSE IF session \notin DOMAIN sessions
    THEN [status |-> 200, body |-> ""]
    ELSE [status |-> 200, body |-> sessions[session].page]

(* GET /page, routes/get_page.rs *)

get_page_route(session) ==
    IF SessionID_from_string(session) # Ok
    THEN [status |-> status_code(SessionID_from_string(session)), body |-> "BadSessionID"]
    ELSE IF session \notin DOMAIN sessions
    THEN [status |-> 404, body |-> "empty_session_page.html"]
    ELSE [status |-> 200, body |-> sessions[session].page]

GetPage(session) ==
    /\ NoHandlerRunning
    /\ LockFree
    /\ last' = [ op |-> "get_page", session |-> session,
                 status |-> get_page_route(session).status,
                 body |-> get_page_route(session).body ]
    /\ UNCHANGED <<now, settings, sessions, sessions_capacity, arcs, handlers, poller, boot, env, swept>>

(* POST /respond, routes/post_respond.rs *)

\* the accepted response without next_response_id += 1
AcceptResponse_reuse(s, user, response_data) ==
    LET entry == [ data |-> response_data, id |-> s.next_response_id,
                   was_received |-> FALSE, time |-> now ]
        responses == Put(s.responses, user, entry)
    IN session_used([s EXCEPT
           !.responses = responses,
           !.responses_capacity =
               CapacityAfterInsert(@, Cardinality(DOMAIN responses))])

\* the session record after the accepted response of user
AcceptResponse(s, user, response_data) ==
    LET response_id == s.next_response_id
        entry == [ data |-> response_data, id |-> response_id,
                   was_received |-> FALSE, time |-> now ]
        responses == Put(s.responses, user, entry)
    IN session_used([s EXCEPT
           !.next_response_id = response_id + 1,
           !.responses = responses,
           !.responses_capacity =
               CapacityAfterInsert(@, Cardinality(DOMAIN responses))])

post_respond_route(response_data, session, user) ==
    IF SessionID_from_string(session) # Ok THEN Rejected(SessionID_from_string(session))
    ELSE IF UserID_from_string(user) # Ok THEN Rejected(UserID_from_string(user))
    ELSE IF Len(response_data) > settings.max_response_size THEN Rejected("ResponseTooLarge")
    ELSE IF session \notin DOMAIN sessions THEN Rejected("SessionIDDoesNotExist")
    ELSE [ status |-> 200,
           sessions |-> [sessions EXCEPT ![session] =
                            AcceptResponse(@, user, response_data)],
           capacity |-> sessions_capacity,
           arcs |-> arcs,
           fired |-> {sessions[session].response_notifier},
           branch |-> "Ok" ]

Respond(response_data, session, user) ==
    /\ NoHandlerRunning
    /\ LockFree
    /\ LET out == post_respond_route(response_data, session, user) IN
        /\ \A s \in DOMAIN out.sessions : out.sessions[s].next_response_id <= MaxResponses
        /\ sessions' = out.sessions
        /\ handlers' = notify_waiters(out.fired, session, FALSE)
        /\ last' = [ op |-> "respond", data |-> response_data, session |-> session,
                     user |-> user, status |-> out.status, fired |-> out.fired ]
    /\ UNCHANGED <<now, settings, sessions_capacity, arcs, poller, boot, env, swept>>


----------------------------------------------------------------------------
(* GET /responses, routes/get_responses.rs *)

\* first lock section: 404, or the notifier and next_response_id are taken
\* and the request waits in select! or runs on to the second lock section
PollStart(h, session, start) ==
    /\ NoHandlerRunning
    /\ LockFree
    /\ handlers[h].pc = "idle"
    /\ h = Poller => start = poller.cursor
    /\ IF SessionID_from_string(session) # Ok \/ session \notin DOMAIN sessions
       THEN /\ handlers' = handlers
            /\ last' = [ op |-> "get_responses", handler |-> h, session |-> session,
                         start |-> start, waited |-> FALSE,
                         status |-> IF SessionID_from_string(session) # Ok
                                    THEN status_code(SessionID_from_string(session))
                                    ELSE status_code("SessionIDDoesNotExist") ]
       ELSE LET notifier == sessions[session].response_notifier
                next_response_id == sessions[session].next_response_id
                wait == /\ next_response_id <= start
                        /\ settings.response_long_poll_duration # 0
            IN /\ handlers' = [handlers EXCEPT ![h] =
                      Suspend("get_responses", session, start, notifier,
                              settings.response_long_poll_duration, wait)]
               /\ last' = [ op |-> "get_responses_lookup", handler |-> h,
                            session |-> session, start |-> start, wait |-> wait ]
    /\ UNCHANGED <<now, settings, sessions, sessions_capacity, arcs, poller, boot, env, swept>>

\* the scan with <= in place of <
Received_inclusive(s, start) ==
    {u \in DOMAIN s.responses : s.responses[u].id <= start}

\* the users whose entry the scan marks as received and skips
Received(s, start) ==
    {u \in DOMAIN s.responses : s.responses[u].id < start}

\* the result with next_start one past next_response_id
RetrievedResponses_ahead(s, start) ==
    [ next_start |-> s.next_response_id + 1,
      responses_by_user |->
          [u \in DOMAIN s.responses \ Received(s, start) |-> s.responses[u].data] ]

\* the RetrievedResponses of a poll of session record s with query.start
RetrievedResponses(s, start) ==
    [ next_start |-> s.next_response_id,
      responses_by_user |->
          [u \in DOMAIN s.responses \ Received(s, start) |-> s.responses[u].data] ]

\* the session record after the scan of the poll
ScannedSession(s, start) ==
    [session_used(s) EXCEPT !.responses =
        [u \in DOMAIN s.responses |->
            IF u \in Received(s, start)
            THEN [s.responses[u] EXCEPT !.was_received = TRUE]
            ELSE s.responses[u]]]

\* the entries of record s of the users in users, each named by the
\* record's Notify object and its id
Entries(s, users) ==
    {<<s.response_notifier, s.responses[u].id>> : u \in users}

\* second lock section, after the select! or directly
PollFinish(h) ==
    /\ handlers[h].pc # "idle"
    /\ handlers[h].kind = "get_responses"
    /\ Runnable(h)
    /\ handlers[h].pc = "waiting" => NoHandlerRunning
    /\ \A g \in Handlers \ {h} : handlers[g].pc # "idle" => ~handlers[g].lock
    /\ LET session == handlers[h].session
           start == handlers[h].start
       IN IF session \notin DOMAIN sessions
          THEN /\ sessions' = sessions
               /\ poller' = poller
               /\ last' = [ op |-> "get_responses", handler |-> h, session |-> session,
                            start |-> start, waited |-> handlers[h].pc = "waiting",
                            status |-> status_code("SessionIDDoesNotExist") ]
          ELSE LET s == sessions[session] IN
               /\ sessions' = [sessions EXCEPT ![session] = ScannedSession(s, start)]
               /\ poller' = IF h # Poller THEN poller
                            ELSE [ cursor |-> RetrievedResponses(s, start).next_start,
                                   returned |-> poller.returned \cup
                                       Entries(s, DOMAIN RetrievedResponses(s, start)
                                                            .responses_by_user),
                                   records |-> poller.records \cup {s.response_notifier} ]
               /\ last' = [ op |-> "get_responses", handler |-> h, session |-> session,
                            start |-> start, waited |-> handlers[h].pc = "waiting",
                            status |-> 200,
                            response |-> RetrievedResponses(s, start),
                            skipped |-> Entries(s, Received(s, start)) ]
    /\ handlers' = [handlers EXCEPT ![h] = Idle]
    /\ UNCHANGED <<now, settings, sessions_capacity, arcs, boot, env, swept>>

(* GET /wait_for_new_page, routes/get_wait_for_page.rs *)

WaitStart(h, session) ==
    /\ NoHandlerRunning
    /\ LockFree
    /\ handlers[h].pc = "idle"
    /\ IF SessionID_from_string(session) # Ok \/ session \notin DOMAIN sessions
       THEN /\ handlers' = handlers
            /\ last' = [ op |-> "wait_for_page", handler |-> h, session |-> session,
                         status |-> IF SessionID_from_string(session) # Ok
                                    THEN status_code(SessionID_from_string(session))
                                    ELSE status_code("SessionIDDoesNotExist") ]
       ELSE /\ handlers' = [handlers EXCEPT ![h] =
                   Suspend("wait_for_page", session, 0,
                           sessions[session].page_notifier,
                           settings.page_update_long_poll_duration, TRUE)]
            /\ last' = [ op |-> "wait_for_page_lookup", handler |-> h,
                         session |-> session ]
    /\ UNCHANGED <<now, settings, sessions, sessions_capacity, arcs, poller, boot, env, swept>>

\* the select!: a branch that is ready is taken
WaitFinish(h) ==
    /\ handlers[h].pc = "waiting"
    /\ handlers[h].kind = "wait_for_page"
    /\ NoHandlerRunning
    /\ \E body \in {"reload", "wait"} :
        /\ body = "reload" => handlers[h].notified
        /\ body = "wait" => now >= handlers[h].deadline
        /\ last' = [ op |-> "wait_for_page", handler |-> h,
                     session |-> handlers[h].session, status |-> 200, body |-> body,
                     replaced |-> handlers[h].replaced ]
    /\ handlers' = [handlers EXCEPT ![h] = Idle]
    /\ UNCHANGED <<now, settings, sessions, sessions_capacity, arcs, poller, boot, env, swept>>


----------------------------------------------------------------------------
(* POST /new, routes/post_init_session.rs *)

retries == 5

\* static_files::get("initial_session_page.html"): the file is not part of
\* the sources at hand; a text within max_page_size stands for it
initial_session_page == "initial page"

\* make_random_session_id(length): some of the strings of length digits
make_random_session_id(length) ==
    IF length = 6 THEN {"111111", "222222"}
    ELSE IF length = 7 THEN {"1111111"}
    ELSE {"11111111"}

\* make_random_access_token: a string of 32 alphanumeric characters, which
\* is taken to differ from the tokens of the clients
make_random_access_token == {"0123456789abcdefghijklmnopqrstuv"}

\* no POST /new was served yet
NoInitSession ==
    [ pc |-> "idle", status |-> 0, session |-> "", token |-> "", existed |-> {},
      served |-> 0 ]

\* the request before its attempt retry_i, with the pair it will claim;
\* existed is the set of session ids in the store when the request arrived
\* and served the number of requests that have arrived
Attempt(retry_i, session_id_length, session, token, existed, served) ==
    [ pc |-> "claiming", retry_i |-> retry_i,
      session_id_length |-> session_id_length,
      session |-> session, token |-> token, existed |-> existed,
      served |-> served ]

\* the answer of the request
Answer(status, session, token, existed, served) ==
    [ pc |-> "idle", status |-> status, session |-> session, token |-> token,
      existed |-> existed, served |-> served ]

\* the loop of the attempts ends one attempt late
LoopEnds_late(retry_i) == retry_i + 1 > retries

\* for retry_i in 0..retries: this was the last iteration
LoopEnds(retry_i) == retry_i + 1 >= retries

\* the length of the session ids that are made after attempt retry_i
NextLength(retry_i, session_id_length) ==
    IF retry_i > 2 THEN session_id_length + 1 ELSE session_id_length

\* the claim posted with notify absent
Claim_notifying(session, token) ==
    set_page_route(initial_session_page, session, "none", token)

\* the claim: POST {root_url}/page?session={session}&notify=false with the
\* token as bearer and the initial page as body
Claim(session, token) ==
    set_page_route(initial_session_page, session, "false", token)

\* a rejected attempt is repeated with the pair it had
Retry_same(b, session, token) ==
    Attempt(b.retry_i + 1, NextLength(b.retry_i, b.session_id_length),
            b.session, b.token, b.existed, b.served)

\* the request after a rejected attempt that was not the last one, with the
\* new random pair
Retry(b, session, token) ==
    Attempt(b.retry_i + 1, NextLength(b.retry_i, b.session_id_length),
            session, token, b.existed, b.served)

\* the request arrives: next is the DesiredSession of the body, or a random
\* pair if the body is none
InitSession(body) ==
    /\ NoHandlerRunning
    /\ boot.pc = "idle"
    /\ boot.served < MaxInitSessions
    /\ \E session \in IF body.parsed THEN {body.session} ELSE make_random_session_id(6),
          token \in IF body.parsed THEN {body.token} ELSE make_random_access_token :
            boot' = Attempt(0, 6, session, token, DOMAIN sessions, boot.served + 1)
    /\ last' = [op |-> "init_session", parsed |-> body.parsed]
    /\ UNCHANGED <<now, settings, sessions, sessions_capacity, arcs, handlers, poller, env, swept>>

\* one iteration of the loop whose send() is answered: the page-set is
\* served, and the request answers 200, goes on with a new pair, or gives up
ClaimSession ==
    /\ NoHandlerRunning
    /\ LockFree
    /\ boot.pc = "claiming"
    /\ LET out == Claim(boot.session, boot.token) IN
        /\ sessions' = out.sessions
        /\ sessions_capacity' = out.capacity
        /\ arcs' = out.arcs
        /\ handlers' = notify_waiters(out.fired, boot.session, FALSE)
        /\ last' = [ op |-> "set_page", page |-> initial_session_page,
                     session |-> boot.session, notify |-> unwrap_or_true("false"),
                     token |-> boot.token, status |-> out.status,
                     fired |-> out.fired, branch |-> out.branch ]
        /\ IF out.status = 200
           THEN boot' = Answer(200, boot.session, boot.token, boot.existed, boot.served)
           ELSE IF LoopEnds(boot.retry_i)
           THEN boot' = Answer(status_code("ServerError"), "", "", boot.existed, boot.served)
           ELSE \E session \in make_random_session_id(
                                   NextLength(boot.retry_i, boot.session_id_length)),
                   token \in make_random_access_token :
                     boot' = Retry(boot, session, token)
    /\ UNCHANGED <<now, settings, poller, env, swept>>

\* an iteration whose send() returns Err
ClaimSendFails ==
    /\ boot.pc = "claiming"
    /\ boot' = Answer(status_code("ServerError"), "", "", boot.existed, boot.served)
    /\ last' = [op |-> "init_session_error"]
    /\ UNCHANGED <<now, settings, sessions, sessions_capacity, arcs, handlers, poller, env, swept>>

----------------------------------------------------------------------------
(* cleanup.rs *)

ResponseGrace == 2          \* Duration::from_secs(30), in time units
AttackKeepAlive == 1        \* Duration::from_secs(5), in time units
SizeOfUserResponse == 48    \* size_of::<UserResponse>()
SizeOfSessionState == 136   \* size_of::<SessionState>()

RECURSIVE SumOver(_, _)
SumOver(f, S) ==
    IF S = {} THEN 0
    ELSE LET x == CHOOSE y \in S : TRUE IN f[x] + SumOver(f, S \ {x})

count_user_memory_usage(ss, capacity) ==
    LET session_bytes(id) ==
            Len(id) + Len(ss[id].page) + Len(ss[id].access_token)
            + SumOver([u \in DOMAIN ss[id].responses |->
                          Len(u) + Len(ss[id].responses[u].data)],
                      DOMAIN ss[id].responses)
            + SizeOfUserResponse * ss[id].responses_capacity
    IN SumOver([id \in DOMAIN ss |-> session_bytes(id)], DOMAIN ss)
       + SizeOfSessionState * capacity

get_memory_usage_with_safety_buffer(ss, capacity) ==
    count_user_memory_usage(ss, capacity) * 2

\* a first retain that keeps every session
DeleteOldSessions_never(ss) == ss

\* the first retain with the cutoff of the last one
DeleteOldSessions_eager(ss) ==
    Retain(ss, {id \in DOMAIN ss : ss[id].last_request + AttackKeepAlive > now})

\* "Delete old sessions."
DeleteOldSessions(ss) ==
    Retain(ss, {id \in DOMAIN ss :
        ss[id].last_request + settings.session_keep_alive_duration > now})

\* a sweep that frees, in each session, only the response with the least id
FreeResponses_oldest(ss) ==
    [id \in DOMAIN ss |-> [ss[id] EXCEPT !.responses =
        Retain(@, {u \in DOMAIN ss[id].responses :
            \E v \in DOMAIN ss[id].responses :
                ss[id].responses[v].id < ss[id].responses[u].id})]]

\* "Free responses that should have been received by all interested
\* parties already."
FreeResponses(ss) ==
    [id \in DOMAIN ss |-> [ss[id] EXCEPT !.responses =
        Retain(@, {u \in DOMAIN ss[id].responses :
            /\ ss[id].responses[u].was_received
            /\ ss[id].responses[u].time + ResponseGrace > now})]]

\* a last tier that frees every session
FreeUnusedSessions_all(ss) == Retain(ss, {})

\* a last tier that starts the ids of the sessions it keeps again
FreeUnusedSessions_afresh(ss) ==
    LET kept == Retain(ss, {id \in DOMAIN ss :
                    ss[id].last_request + AttackKeepAlive > now})
    IN [id \in DOMAIN kept |-> [kept[id] EXCEPT !.next_response_id = 0]]

\* "just free everything that wasn't used a few seconds ago", and the
\* shrink_to_fit of every response map
FreeUnusedSessions(ss) ==
    LET kept == Retain(ss, {id \in DOMAIN ss :
                    ss[id].last_request + AttackKeepAlive > now})
    IN [id \in DOMAIN kept |-> [kept[id] EXCEPT !.responses_capacity =
            HashMapCapacity(Cardinality(DOMAIN kept[id].responses))]]

\* one tick of do_periodic_cleanup: the store and the capacity of the
\* session map it leaves, and the last tier that ran
periodic_cleanup(ss, capacity, max_memory_usage) ==
    LET tier0 == DeleteOldSessions(ss)
        tier1 == FreeResponses(tier0)
        tier2 == FreeUnusedSessions(tier1)
    IN IF get_memory_usage_with_safety_buffer(tier0, capacity) < max_memory_usage
       THEN [sessions |-> tier0, capacity |-> capacity, tier |-> 0]
       ELSE IF get_memory_usage_with_safety_buffer(tier1, capacity) < max_memory_usage
       THEN [sessions |-> tier1, capacity |-> capacity, tier |-> 1]
       ELSE [sessions |-> tier2,
             capacity |-> HashMapCapacity(Cardinality(DOMAIN tier2)),
             tier |-> 2]

\* the tick of the running server
do_periodic_cleanup ==
    periodic_cleanup(sessions, sessions_capacity, settings.max_memory_usage)

\* interval.tick() completes: at the start and every cleanup_interval
IntervalTick == now % settings.cleanup_interval = 0

\* one iteration of the loop
Cleanup ==
    /\ IntervalTick
    /\ ~swept
    /\ LockFree
    /\ sessions' = do_periodic_cleanup.sessions
    /\ sessions_capacity' = do_periodic_cleanup.capacity
    /\ swept' = TRUE
    /\ last' = [op |-> "cleanup", tier |-> do_periodic_cleanup.tier]
    /\ UNCHANGED <<now, settings, arcs, handlers, poller, boot, env>>

----------------------------------------------------------------------------
(* The clock: a request that can run, and the cleanup whose interval tick *)
(* has completed, do so before time passes                                *)

Tick ==
    /\ now < MaxTime
    /\ \A h \in Handlers : ~Runnable(h)
    /\ IntervalTick => swept
    /\ now' = now + 1
    /\ swept' = FALSE
    /\ last' = [op |-> "tick"]
    /\ UNCHANGED <<settings, sessions, sessions_capacity, arcs, handlers, poller, boot, env>>

----------------------------------------------------------------------------

Init ==
    /\ now = 0
    /\ env \in Clients
    /\ settings = SettingsOf(env)
    /\ sessions = EmptyMap
    /\ sessions_capacity = 0
    /\ arcs = 0
    /\ handlers = [h \in Handlers |-> Idle]
    /\ poller = [cursor |-> 0, returned |-> {}, records |-> {}]
    /\ boot = NoInitSession
    /\ swept = FALSE
    /\ last = [op |-> "start"]

Next ==
    \/ \E page \in env.pages, session \in env.sessions,
          notify \in env.notifies, token \in env.tokens :
            SetPage(page, session, notify, token)
    \/ \E session \in env.sessions : GetPage(session)
    \/ \E data \in env.datas, session \in env.sessions, user \in env.users :
            Respond(data, session, user)
    \/ \E h \in env.pollers, session \in env.sessions, start \in env.starts :
            PollStart(h, session, start)
    \/ \E h \in Handlers : PollFinish(h)
    \/ \E h \in env.waiters, session \in env.sessions : WaitStart(h, session)
    \/ \E h \in Handlers : WaitFinish(h)
    \/ \E body \in env.bodies : InitSession(body)
    \/ ClaimSession
    \/ ClaimSendFails
    \/ Cleanup
    \/ Tick

Spec == Init /\ [][Next]_vars

\* The runs of the clients that wait for pages and poll (FairInit), under a
\* fair runtime: every task that is ready is polled (a request whose select! has
\* a ready branch is resumed and the cleanup task runs, however many other
\* requests arrive), and the clock advances however many requests are served.
FairInit ==
    /\ Init
    /\ env \in {Primers, Crowd, Strangers}

FairSpec ==
    /\ FairInit
    /\ [][Next]_vars
    /\ SF_vars(Tick)
    /\ SF_vars(Cleanup)
    /\ \A h \in Handlers : SF_vars(PollFinish(h)) /\ SF_vars(WaitFinish(h))

----------------------------------------------------------------------------
(* Properties.  A property about one request is an action property: last'  *)
(* names the request that the step served, the unprimed variables are the  *)
(* state it found and the primed ones the state it left.  A page-set, a    *)
(* response submission, ... mean requests that pass the handler's          *)
(* validation of identifiers and sizes, which is stated as ValidPageSet    *)
(* and ValidRespond.                                                       *)

ValidPageSet(r) ==
    /\ AccessToken_from_string(r.token) = Ok
    /\ SessionID_from_string(r.session) = Ok
    /\ Len(r.page) <= settings.max_page_size

ValidRespond(r) ==
    /\ SessionID_from_string(r.session) = Ok
    /\ UserID_from_string(r.user) = Ok
    /\ Len(r.data) <= settings.max_response_size

\* the Notify objects that the store or a suspended request holds
NotifiersInUse ==
    UNION {{sessions[s].response_notifier, sessions[s].page_notifier} :
              s \in DOMAIN sessions}
    \cup {handlers[h].notifier : h \in {g \in Handlers : handlers[g].pc # "idle"}}

\* stored is page with the injection inserted before its first "</head>",
\* and page itself when it has none
IsInjected(stored, page) ==
    LET heads == {i \in 1..(Len(page) - 6) : SubSeq(page, i, i + 6) = "</head>"}
    IN IF heads = {} THEN stored = page
       ELSE \E i \in heads :
               /\ \A j \in heads : i <= j
               /\ stored = SubSeq(page, 1, i - 1) \o polli_live_injection
                               \o SubSeq(page, i, Len(page))

\* C1: a page-set on an existing session with a token other than the
\* session's, made while now - last_request < token_timeout, is answered 401
\* and leaves the store (so page, access_token, responses, next_response_id
\* and last_request of the record) as it was; a page read that follows
\* returns the page the session had.
C1_ConflictingTokenRejected ==
    [][\A sid \in env.sessions :
        ( /\ last'.op = "set_page"
          /\ last'.session = sid
          /\ ValidPageSet(last')
          /\ sid \in DOMAIN sessions
          /\ sessions[sid].access_token # last'.token
          /\ now - sessions[sid].last_request < settings.token_timeout )
        => ( /\ last'.status = 401
             /\ sessions' = sessions
             /\ get_page_route(sid)'.status = 200
             /\ get_page_route(sid)'.body = sessions[sid].page )]_vars

C1_Witness ==
    /\ last.op = "set_page"
    /\ last.status = 401
    /\ last.session \in DOMAIN sessions
    /\ sessions[last.session].access_token # last.token
    /\ now - sessions[last.session].last_request < settings.token_timeout
    /\ sessions[last.session].responses # EmptyMap
    /\ get_page_route(last.session).body # last.page

\* C2 as stated: a page-set on an existing session with a different token,
\* made once now - last_request >= token_timeout, succeeds and replaces the
\* record: access_token is the caller's, page is the caller's page, responses
\* is empty, next_response_id is 0, last_request is now and both Notify
\* objects are fresh.
C2_TakeoverStoresCallersPage ==
    [][\A sid \in env.sessions :
        ( /\ last'.op = "set_page"
          /\ last'.session = sid
          /\ ValidPageSet(last')
          /\ sid \in DOMAIN sessions
          /\ sessions[sid].access_token # last'.token
          /\ now - sessions[sid].last_request >= settings.token_timeout )
        => ( /\ last'.status = 200
             /\ sessions'[sid].access_token = last'.token
             /\ sessions'[sid].page = last'.page
             /\ sessions'[sid].responses = EmptyMap
             /\ sessions'[sid].next_response_id = 0
             /\ sessions'[sid].last_request = now
             /\ sessions'[sid].response_notifier \notin NotifiersInUse
             /\ sessions'[sid].page_notifier \notin NotifiersInUse
             /\ sessions'[sid].response_notifier # sessions'[sid].page_notifier )]_vars

\* C2, amended: the same, with the page being the caller's page with the
\* injection inserted before its first "</head>".
C2_TakeoverReplacesRecord ==
    [][\A sid \in env.sessions :
        ( /\ last'.op = "set_page"
          /\ last'.session = sid
          /\ ValidPageSet(last')
          /\ sid \in DOMAIN sessions
          /\ sessions[sid].access_token # last'.token
          /\ now - sessions[sid].last_request >= settings.token_timeout )
        => ( /\ last'.status = 200
             /\ sessions'[sid].access_token = last'.token
             /\ IsInjected(sessions'[sid].page, last'.page)
             /\ sessions'[sid].responses = EmptyMap
             /\ sessions'[sid].next_response_id = 0
             /\ sessions'[sid].last_request = now
             /\ sessions'[sid].response_notifier \notin NotifiersInUse
             /\ sessions'[sid].page_notifier \notin NotifiersInUse
             /\ sessions'[sid].response_notifier # sessions'[sid].page_notifier )]_vars

\* a takeover just happened, of a record that had been in use (its counter
\* had advanced) and whose owner had been silent for exactly token_timeout
C2_Witness ==
    /\ last.op = "set_page"
    /\ last.status = 200
    /\ last.session \in DOMAIN sessions
    /\ sessions[last.session].access_token = last.token
    /\ sessions[last.session].response_notifier >= 2
    /\ sessions[last.session].last_request = now
    /\ sessions[last.session].page # last.page
    /\ \E h \in Handlers :
          /\ handlers[h].pc = "waiting"
          /\ handlers[h].session = last.session
          /\ handlers[h].notifier < 2

\* C3 as stated: the page read that follows an accepted page-set returns
\* the content that was submitted, byte for byte.
C3_RoundTripIdentical ==
    (last.op = "set_page" /\ last.status = 200)
        => get_page_route(last.session) = [status |-> 200, body |-> last.page]

\* C3, amended: the page read that follows an accepted page-set returns the
\* submitted content with the injection inserted before its first "</head>",
\* and so the submitted content itself exactly if it holds no "</head>".
C3_RoundTripInjected ==
    (last.op = "set_page" /\ last.status = 200)
        => /\ get_page_route(last.session).status = 200
           /\ IsInjected(get_page_route(last.session).body, last.page)

C3_Witness ==
    /\ last.op = "set_page"
    /\ last.status = 200
    /\ get_page_route(last.session).status = 200
    /\ get_page_route(last.session).body # last.page
    /\ Len(get_page_route(last.session).body) = Len(last.page) + Len(polli_live_injection)

\* C4: a successful poll with start = N returns in responses_by_user
\* exactly the users whose entry in the ledger has id >= N, each with its
\* current data, returns next_start = next_response_id as read, and leaves
\* was_received = TRUE on every entry with id < N, whether the poll waited
\* or not.
C4_PollReturnsFromStart ==
    [][\A sid \in env.sessions :
        ( /\ last'.op = "get_responses"
          /\ last'.session = sid
          /\ last'.status = 200 )
        => ( /\ sid \in DOMAIN sessions
             /\ DOMAIN last'.response.responses_by_user =
                    {u \in DOMAIN sessions[sid].responses :
                        sessions[sid].responses[u].id >= last'.start}
             /\ \A u \in DOMAIN last'.response.responses_by_user :
                    last'.response.responses_by_user[u] = sessions[sid].responses[u].data
             /\ last'.response.next_start = sessions[sid].next_response_id
             /\ DOMAIN sessions'[sid].responses = DOMAIN sessions[sid].responses
             /\ \A u \in DOMAIN sessions[sid].responses :
                    sessions[sid].responses[u].id < last'.start
                        => sessions'[sid].responses[u].was_received )]_vars

\* a poll that waited returned an entry and skipped another one
C4_Witness ==
    /\ last.op = "get_responses"
    /\ last.status = 200
    /\ last.waited
    /\ last.start >= 1
    /\ DOMAIN last.response.responses_by_user # {}
    /\ \E u \in DOMAIN sessions[last.session].responses :
          /\ sessions[last.session].responses[u].id < last.start
          /\ sessions[last.session].responses[u].was_received

\* C5 as stated: next_response_id of a session never decreases, whatever
\* the operation.
C5_NeverDecreases ==
    [][\A sid \in DOMAIN sessions \cap DOMAIN sessions' :
          sessions'[sid].next_response_id >= sessions[sid].next_response_id]_vars

\* C5, amended: as long as the session's record is not replaced by a
\* takeover (it keeps its Notify objects), next_response_id never decreases;
\* an accepted response takes the old value as its id and increases it by
\* exactly one, no other operation changes it, and so the entries of the
\* ledger have ids that differ and lie below next_response_id.
C5_MonotonicWithinRecord ==
    [][\A sid \in DOMAIN sessions \cap DOMAIN sessions' :
          sessions'[sid].response_notifier = sessions[sid].response_notifier
          => /\ sessions'[sid].next_response_id >= sessions[sid].next_response_id
             /\ IF last'.op = "respond" /\ last'.status = 200 /\ last'.session = sid
                THEN /\ sessions'[sid].next_response_id =
                            sessions[sid].next_response_id + 1
                     /\ sessions'[sid].responses[last'.user].id =
                            sessions[sid].next_response_id
                ELSE sessions'[sid].next_response_id = sessions[sid].next_response_id
             /\ \A u \in DOMAIN sessions'[sid].responses :
                    /\ sessions'[sid].responses[u].id < sessions'[sid].next_response_id
                    /\ \A v \in DOMAIN sessions'[sid].responses :
                          u # v => sessions'[sid].responses[u].id
                                      # sessions'[sid].responses[v].id]_vars

\* the second accepted response of a record, next to the first
C5_Witness ==
    /\ last.op = "respond"
    /\ last.status = 200
    /\ sessions[last.session].next_response_id = 2
    /\ sessions[last.session].responses[last.user].id = 1
    /\ Cardinality(DOMAIN sessions[last.session].responses) = 2

\* C6 as stated: no poll of the client that follows next_start skips (and
\* marks as received) an entry that no poll of it has returned, whatever
\* page-sets, takeovers and cleanups come between.
C6_NeverMisses ==
    (last.op = "get_responses" /\ last.handler = Poller /\ last.status = 200)
        => last.skipped \subseteq poller.returned

\* C6, amended: the same for a client whose polls were all served from one
\* record of the session, that is with no takeover, and no removal and new
\* creation of the session, between its polls.
C6_NeverMissesWithinRecord ==
    ( /\ last.op = "get_responses"
      /\ last.handler = Poller
      /\ last.status = 200
      /\ Cardinality(poller.records) <= 1 )
        => last.skipped \subseteq poller.returned

\* a poll of that client waited, skipped an entry it had been given and
\* returned the response that came during its wait
C6_Witness ==
    /\ last.op = "get_responses"
    /\ last.handler = Poller
    /\ last.status = 200
    /\ last.waited
    /\ Cardinality(poller.records) = 1
    /\ last.skipped # {}
    /\ last.skipped \subseteq poller.returned
    /\ DOMAIN last.response.responses_by_user # {}
    /\ poller.cursor = 2

\* C7: a response of user u to an existing session, within
\* max_response_size, is answered 200 and stores for u the entry with the
\* data, id = next_response_id as it was, was_received = FALSE in place of
\* any entry u had, leaves the other entries alone, increments
\* next_response_id, sets last_request to now and calls notify_waiters on the
\* response_notifier, which completes every wait on it.
C7_RespondStoresEntry ==
    [][\A sid \in env.sessions :
        ( /\ last'.op = "respond"
          /\ last'.session = sid
          /\ ValidRespond(last')
          /\ sid \in DOMAIN sessions )
        => ( /\ last'.status = 200
             /\ DOMAIN sessions' = DOMAIN sessions
             /\ DOMAIN sessions'[sid].responses =
                    DOMAIN sessions[sid].responses \cup {last'.user}
             /\ sessions'[sid].responses[last'.user] =
                    [ data |-> last'.data, id |-> sessions[sid].next_response_id,
                      was_received |-> FALSE, time |-> now ]
             /\ \A u \in DOMAIN sessions[sid].responses \ {last'.user} :
                    sessions'[sid].responses[u] = sessions[sid].responses[u]
             /\ sessions'[sid].next_response_id = sessions[sid].next_response_id + 1
             /\ sessions'[sid].last_request = now
             /\ last'.fired = {sessions[sid].response_notifier}
             /\ \A h \in Handlers :
                    ( /\ handlers[h].pc = "waiting"
                      /\ handlers[h].notifier = sessions[sid].response_notifier )
                    => handlers'[h].notified )]_vars

\* a response was accepted later than the record's last use, in a ledger
\* that holds another user's entry, and it woke a poll
C7_Witness ==
    /\ last.op = "respond"
    /\ last.status = 200
    /\ now >= 1
    /\ sessions[last.session].responses[last.user].id >= 1
    /\ sessions[last.session].responses[last.user].time = now
    /\ Cardinality(DOMAIN sessions[last.session].responses) = 2
    /\ \E h \in Handlers :
          /\ handlers[h].pc = "waiting"
          /\ handlers[h].kind = "get_responses"
          /\ handlers[h].notified

\* C8: a page read, a response (within max_response_size), a poll (in
\* either of its lock sections) or a page wait that finds its session (of
\* a well-formed id) absent is answered 404 and leaves the store as it was; a session
\* enters the store only by a page-set that is answered 200.
C8_AbsentSessionNotFound ==
    [][ /\ \A sid \in env.sessions :
            ( /\ \/ last'.op = "get_page"
                 \/ last'.op = "respond" /\ ValidRespond(last')
                 \/ last'.op = "get_responses"
                 \/ last'.op = "wait_for_page" /\ handlers[last'.handler].pc = "idle"
              /\ last'.session = sid
              /\ SessionID_from_string(sid) = Ok
              /\ sid \notin DOMAIN sessions )
            => ( /\ last'.status = 404
                 /\ sessions' = sessions
                 /\ sessions_capacity' = sessions_capacity )
        /\ DOMAIN sessions' \ DOMAIN sessions # {}
             => /\ last'.op = "set_page"
                /\ last'.status = 200
                /\ DOMAIN sessions' \ DOMAIN sessions = {last'.session} ]_vars

\* a poll lost its session during its wait
C8_Witness ==
    /\ last.op = "get_responses"
    /\ last.status = 404
    /\ last.waited
    /\ last.session \notin DOMAIN sessions
    /\ arcs >= 2

\* C9 as stated: a page-set with the session's token stores the caller's
\* page, empties the ledger, refreshes last_request, keeps the token and
\* fires the page signal.
C9_UpdateStoresAndFires ==
    [][\A sid \in env.sessions :
        ( /\ last'.op = "set_page"
          /\ last'.session = sid
          /\ ValidPageSet(last')
          /\ sid \in DOMAIN sessions
          /\ sessions[sid].access_token = last'.token )
        => ( /\ last'.status = 200
             /\ sessions'[sid].page = last'.page
             /\ sessions'[sid].responses = EmptyMap
             /\ sessions'[sid].last_request = now
             /\ sessions'[sid].access_token = sessions[sid].access_token
             /\ last'.fired = {sessions[sid].page_notifier} )]_vars

\* C9, amended: a page-set with the session's token updates the record in
\* place (same Notify objects, same next_response_id): the page becomes the
\* caller's page with the injection before its first "</head>", the ledger
\* becomes empty, last_request is now, the token is unchanged, and
\* notify_waiters is called on the page_notifier, completing every wait on
\* it, unless the request says notify=false, and then on nothing.
C9_UpdateInPlace ==
    [][\A sid \in env.sessions :
        ( /\ last'.op = "set_page"
          /\ last'.session = sid
          /\ ValidPageSet(last')
          /\ sid \in DOMAIN sessions
          /\ sessions[sid].access_token = last'.token )
        => ( /\ last'.status = 200
             /\ IsInjected(sessions'[sid].page, last'.page)
             /\ sessions'[sid].responses = EmptyMap
             /\ sessions'[sid].last_request = now
             /\ sessions'[sid].access_token = sessions[sid].access_token
             /\ sessions'[sid].next_response_id = sessions[sid].next_response_id
             /\ sessions'[sid].response_notifier = sessions[sid].response_notifier
             /\ sessions'[sid].page_notifier = sessions[sid].page_notifier
             /\ last'.fired = IF last'.notify THEN {sessions[sid].page_notifier} ELSE {}
             /\ \A h \in Handlers :
                    ( /\ handlers[h].pc = "waiting"
                      /\ handlers[h].notifier = sessions[sid].page_notifier )
                    => handlers'[h].notified = (handlers[h].notified \/ last'.notify) )]_vars

\* an update in place of a record that had taken a response woke a page wait
C9_Witness ==
    /\ last.op = "set_page"
    /\ last.status = 200
    /\ last.session \in DOMAIN sessions
    /\ last.fired = {sessions[last.session].page_notifier}
    /\ sessions[last.session].next_response_id >= 1
    /\ sessions[last.session].responses = EmptyMap
    /\ now >= 1
    /\ \E h \in Handlers :
          /\ handlers[h].pc = "waiting"
          /\ handlers[h].kind = "wait_for_page"
          /\ handlers[h].notified

\* C10: a page wait during which a notifying page-set (an update with the
\* owner's token or a takeover) replaced the page of its session before its
\* timeout returns "reload".
C10_ReplacedMeansReload ==
    (last.op = "wait_for_page" /\ last.status = 200 /\ last.replaced)
        => last.body = "reload"

\* a page wait returned "wait" although a notifying takeover replaced the
\* page during the wait
C10_Witness ==
    /\ last.op = "wait_for_page"
    /\ last.status = 200
    /\ last.replaced
    /\ last.body = "wait"
    /\ last.session \in DOMAIN sessions
    /\ sessions[last.session].page_notifier >= 2

\* C11: a request that waits in its select! (a poll or a page wait) holds
\* no MutexGuard, so that state.lock() of a response, of a page-set and of
\* the cleanup, whenever its interval tick is due, returns while requests
\* wait.
C11_NoLockWhileWaiting ==
    \A h \in Handlers :
        handlers[h].pc = "waiting"
            => /\ ~handlers[h].lock
               /\ LockFree
               /\ (IntervalTick /\ ~swept) => ENABLED Cleanup

\* a response was accepted while a poll was waiting
C11_Witness ==
    /\ last.op = "respond"
    /\ last.status = 200
    /\ \E h \in Handlers :
          /\ handlers[h].pc = "waiting"
          /\ handlers[h].kind = "get_responses"
          /\ handlers[h].session = last.session

\* the memory ceilings the sweep is tried with: none of the stores of the
\* model fits below the least, all fit below the greatest
MemoryCeilings == {0, 860, 1150, 1160, 1190, 5000}

\* C12: for the store of every reachable state and every memory ceiling,
\* the sweep run on the result of the sweep, at the same time, returns that
\* result: the same sessions with the same responses and capacities; and a
\* tick of the cleanup that follows a tick changes nothing.
C12_SweepIdempotent ==
    /\ \A c \in MemoryCeilings :
          LET once == periodic_cleanup(sessions, sessions_capacity, c)
              twice == periodic_cleanup(once.sessions, once.capacity, c)
          IN /\ twice.sessions = once.sessions
             /\ twice.capacity = once.capacity
    /\ last.op = "cleanup"
          => /\ do_periodic_cleanup.sessions = sessions
             /\ do_periodic_cleanup.capacity = sessions_capacity

\* a sweep under the configured ceiling has run all its tiers and has left
\* a session with a response
C12_Witness ==
    /\ last.op = "cleanup"
    /\ last.tier = 2
    /\ \E id \in DOMAIN sessions : sessions[id].responses # EmptyMap

\* the step is an iteration of the loop of POST /new whose send() was
\* answered
IsClaim == boot.pc = "claiming" /\ boot' # boot /\ last'.op = "set_page"

\* C13 as stated, for the access token: a page-set whose token has a wrong
\* length (and whose session id and page are accepted) is answered 400.
C13_MalformedTokenIs400 ==
    [][ ( /\ last'.op = "set_page"
          /\ AccessToken_from_string(last'.token) # Ok
          /\ SessionID_from_string(last'.session) = Ok
          /\ Len(last'.page) <= settings.max_page_size )
        => last'.status = 400 ]_vars

\* C13, amended: a session id or user id of a wrong length is answered 400,
\* an access token of a wrong length 401 (as is a well-formed token other
\* than the owner's while the owner's window lasts), a page or response
\* beyond its ceiling 413, an unknown session 404, and a POST /new whose
\* attempts are exhausted 500.  Where a request has several of these
\* faults, the order is that of the handler: token, session id, user id,
\* size, lookup.
C13_StatusOfErrors ==
    [][ /\ last'.op = "set_page" =>
            IF AccessToken_from_string(last'.token) # Ok THEN last'.status = 401
            ELSE IF SessionID_from_string(last'.session) # Ok THEN last'.status = 400
            ELSE IF Len(last'.page) > settings.max_page_size THEN last'.status = 413
            ELSE IF /\ last'.session \in DOMAIN sessions
                    /\ sessions[last'.session].access_token # last'.token
                    /\ now - sessions[last'.session].last_request < settings.token_timeout
                 THEN last'.status = 401
            ELSE last'.status = 200
        /\ last'.op = "respond" =>
            IF SessionID_from_string(last'.session) # Ok THEN last'.status = 400
            ELSE IF UserID_from_string(last'.user) # Ok THEN last'.status = 400
            ELSE IF Len(last'.data) > settings.max_response_size THEN last'.status = 413
            ELSE IF last'.session \notin DOMAIN sessions THEN last'.status = 404
            ELSE last'.status = 200
        /\ last'.op \in {"get_page", "get_responses", "wait_for_page"} =>
            IF SessionID_from_string(last'.session) # Ok THEN last'.status = 400
            ELSE IF last'.session \notin DOMAIN sessions
                 THEN \/ last'.status = 404
                      \/ last'.op = "wait_for_page" /\ handlers[last'.handler].pc # "idle"
            ELSE last'.status = 200
        /\ ( /\ IsClaim
             /\ boot.retry_i = retries - 1
             /\ last'.status # 200 )
            => boot'.pc = "idle" /\ boot'.status = 500 ]_vars

\* a page-set with a token that is too short was answered 401
C13_Witness ==
    /\ last.op = "set_page"
    /\ last.status = 401
    /\ Len(last.token) < 10
    /\ SessionID_from_string(last.session) = Ok

\* C14: a POST /new makes at most retries = 5 attempts; the first attempt
\* whose page-set is answered 200 ends it with 200 and the pair of that
\* attempt; an attempt that is rejected is followed by the next one, and
\* the rejection of the fifth ends it with 500, as does an attempt whose
\* send() fails; and as long as it has not answered, its next attempt can
\* be made as soon as no handler is running.
C14_BootstrapTerminates ==
    /\ [](boot.pc = "claiming"
            => /\ boot.retry_i \in 0..(retries - 1)
               /\ ENABLED ClaimSession \/ \E h \in Handlers : handlers[h].pc = "ready")
    /\ [][ /\ IsClaim =>
                IF last'.status = 200
                THEN /\ boot'.pc = "idle"
                     /\ boot'.status = 200
                     /\ boot'.session = boot.session
                     /\ boot'.token = boot.token
                ELSE IF boot.retry_i = retries - 1
                THEN boot'.pc = "idle" /\ boot'.status = 500
                ELSE boot'.pc = "claiming" /\ boot'.retry_i = boot.retry_i + 1
           /\ (boot.pc = "claiming" /\ last'.op = "init_session_error")
                => boot'.pc = "idle" /\ boot'.status = 500
           /\ (boot.pc = "idle" /\ boot'.pc = "claiming") => boot'.retry_i = 0 ]_vars

\* the fifth attempt, made with an id of seven digits, was rejected as the
\* four before it, and the request answered 500
C14_Witness ==
    /\ boot.pc = "idle"
    /\ boot.status = 500
    /\ last.op = "set_page"
    /\ last.status = 401
    /\ Len(last.session) = 7

\* C15 as stated: an attempt of POST /new whose session id is in the store
\* is rejected and leaves the store as it was, and the session of a pair
\* that POST /new returns was not in the store when the request arrived.
C15_BootstrapNeverModifies ==
    [][ /\ (IsClaim /\ boot.session \in DOMAIN sessions)
            => last'.status # 200 /\ sessions' = sessions
        /\ (IsClaim /\ last'.status = 200)
            => boot'.session \notin boot.existed ]_vars

\* C15, amended: an attempt is a page-set with notify=false and follows the
\* rules of ownership.  On a session in the store it is rejected (401) and
\* leaves the store as it was if its token is not the session's and the
\* owner's window lasts, and the request goes on with a new random pair (an
\* id of the current length, a token of 32 bytes) unless this was the last
\* attempt; with the session's token (a DesiredSession of the caller) it
\* updates the record in place, and once the window has elapsed it takes
\* the record over: the page becomes the initial page, the ledger is
\* emptied.  The pair of an answer 200 names a session that is in the store
\* with that token.
C15_BootstrapFollowsOwnership ==
    [][ IsClaim =>
          /\ ( /\ boot.session \in DOMAIN sessions
               /\ sessions[boot.session].access_token # boot.token
               /\ now - sessions[boot.session].last_request < settings.token_timeout )
             => /\ last'.status = 401
                /\ sessions' = sessions
                /\ boot.retry_i < retries - 1
                     => /\ boot'.pc = "claiming"
                        /\ Len(boot'.session) = IF boot.retry_i > 2
                                                THEN boot.session_id_length + 1
                                                ELSE boot.session_id_length
                        /\ Len(boot'.token) = 32
          /\ ( /\ boot.session \in DOMAIN sessions
               /\ \/ sessions[boot.session].access_token = boot.token
                  \/ now - sessions[boot.session].last_request >= settings.token_timeout
               /\ AccessToken_from_string(boot.token) = Ok )
             => /\ last'.status = 200
                /\ IsInjected(sessions'[boot.session].page, initial_session_page)
                /\ sessions'[boot.session].responses = EmptyMap
                /\ sessions'[boot.session].last_request = now
          /\ last'.status = 200
             => /\ boot'.status = 200
                /\ boot'.session \in DOMAIN sessions'
                /\ sessions'[boot'.session].access_token = boot'.token ]_vars

\* POST /new answered 200 with a random pair whose session was in the store
\* when the request arrived, and is now owned by the random token
C15_Witness ==
    /\ boot.pc = "idle"
    /\ boot.status = 200
    /\ last.op = "set_page"
    /\ last.session = boot.session
    /\ boot.session \in boot.existed
    /\ Len(boot.token) = 32
    /\ boot.session \in DOMAIN sessions
    /\ sessions[boot.session].access_token = boot.token

\* C16 as stated: at now = last_request + token_timeout a page-set with a
\* token other than the session's is rejected and the record is untouched.
C16_BoundaryRejected ==
    [][\A sid \in env.sessions :
        ( /\ last'.op = "set_page"
          /\ last'.session = sid
          /\ ValidPageSet(last')
          /\ sid \in DOMAIN sessions
          /\ sessions[sid].access_token # last'.token
          /\ now = sessions[sid].last_request + settings.token_timeout )
        => ( /\ last'.status = 401
             /\ sessions' = sessions )]_vars

\* C16, amended: at now = last_request + token_timeout the page-set with
\* another token is answered 200 and takes the session over; it is rejected
\* exactly while now < last_request + token_timeout.
C16_BoundaryTakesOver ==
    [][\A sid \in env.sessions :
        ( /\ last'.op = "set_page"
          /\ last'.session = sid
          /\ ValidPageSet(last')
          /\ sid \in DOMAIN sessions
          /\ sessions[sid].access_token # last'.token )
        => ( /\ now = sessions[sid].last_request + settings.token_timeout
                => /\ last'.status = 200
                   /\ last'.branch = "new"
                   /\ sessions'[sid].access_token = last'.token
             /\ last'.status = 401
                <=> now < sessions[sid].last_request + settings.token_timeout
             /\ last'.status = 200
                <=> now >= sessions[sid].last_request + settings.token_timeout )]_vars

\* a client's takeover at the first moment at which the window of a record
\* can have elapsed
C16_Witness ==
    /\ last.op = "set_page"
    /\ last.status = 200
    /\ last.branch = "new"
    /\ Len(last.token) = 10
    /\ now = settings.token_timeout
    /\ sessions[last.session].access_token = last.token

\* C17 as stated: a page-set for a session that is not in the store creates
\* a record owned by the caller's token whose page is the page of the request,
\* with no responses and next_response_id 0, and calls notify_waiters on
\* nothing, whatever notify is.
C17_CreateStoresGivenPage ==
    [][\A sid \in env.sessions :
        ( /\ last'.op = "set_page"
          /\ last'.session = sid
          /\ ValidPageSet(last')
          /\ sid \notin DOMAIN sessions )
        => ( /\ last'.status = 200
             /\ sid \in DOMAIN sessions'
             /\ sessions'[sid].access_token = last'.token
             /\ sessions'[sid].page = last'.page
             /\ sessions'[sid].responses = EmptyMap
             /\ sessions'[sid].next_response_id = 0
             /\ last'.fired = {}
             /\ handlers' = handlers )]_vars

\* C17, amended: the record's page is the page of the request with the
\* injection inserted before its first "</head>" (the page itself when it has
\* none); the record is owned by the caller's token, has no responses,
\* next_response_id 0, last_request now and two Notify objects that nothing
\* holds; no notify_waiters call is made and no suspended request changes,
\* whatever notify is; the other sessions stay as they were.
C17_CreateStoresInjectedPage ==
    [][\A sid \in env.sessions :
        ( /\ last'.op = "set_page"
          /\ last'.session = sid
          /\ ValidPageSet(last')
          /\ sid \notin DOMAIN sessions )
        => ( /\ last'.status = 200
             /\ last'.branch = "insert"
             /\ DOMAIN sessions' = DOMAIN sessions \cup {sid}
             /\ \A other \in DOMAIN sessions : sessions'[other] = sessions[other]
             /\ sessions'[sid].access_token = last'.token
             /\ IsInjected(sessions'[sid].page, last'.page)
             /\ sessions'[sid].responses = EmptyMap
             /\ sessions'[sid].next_response_id = 0
             /\ sessions'[sid].last_request = now
             /\ sessions'[sid].response_notifier \notin NotifiersInUse
             /\ sessions'[sid].page_notifier \notin NotifiersInUse
             /\ last'.fired = {}
             /\ handlers' = handlers )]_vars

\* a notifying page-set has created a record whose page differs from the
\* page of the request
C17_Witness ==
    /\ last.op = "set_page"
    /\ last.branch = "insert"
    /\ last.notify
    /\ last.session \in DOMAIN sessions
    /\ sessions[last.session].page # last.page
    /\ sessions[last.session].responses = EmptyMap
    /\ sessions[last.session].next_response_id = 0

\* C18: a page-set answered 200 whose notify is false calls notify_waiters
\* on nothing and leaves every suspended request as it was, and the page of
\* the request (with the injection) is stored for the caller's token; a page
\* waiter becomes notified only by the step of a notifying page-set, and one
\* that finishes without having been notified answers "wait"; a request
\* without notify is served as one with notify=true; the page-set of
\* POST /new carries notify=false.
C18_SilentPageSet ==
    /\ [](\A page \in env.pages, sid \in env.sessions, token \in env.tokens :
            /\ set_page_route(page, sid, "none", token)
                   = set_page_route(page, sid, "true", token)
            /\ (/\ ValidPageSet([page |-> page, session |-> sid, token |-> token])
                /\ sid \in DOMAIN sessions
                /\ sessions[sid].access_token = token)
               => /\ set_page_route(page, sid, "none", token).fired
                         = {sessions[sid].page_notifier}
                  /\ set_page_route(page, sid, "false", token).fired = {}
                  /\ set_page_route(page, sid, "false", token).sessions
                         = set_page_route(page, sid, "true", token).sessions)
    /\ [][ /\ (last'.op = "set_page" /\ last'.status = 200 /\ ~last'.notify)
              => /\ last'.fired = {}
                 /\ handlers' = handlers
                 /\ IsInjected(sessions'[last'.session].page, last'.page)
                 /\ sessions'[last'.session].access_token = last'.token
                 /\ sessions'[last'.session].responses = EmptyMap
           /\ \A h \in Handlers :
                 (/\ handlers[h].pc = "waiting"
                  /\ handlers[h].kind = "wait_for_page"
                  /\ ~handlers[h].notified)
                 => /\ handlers'[h].pc = "waiting" /\ handlers'[h].notified
                       => /\ last'.op = "set_page"
                          /\ last'.status = 200
                          /\ last'.notify
                          /\ handlers[h].notifier \in last'.fired
                    /\ handlers'[h].pc = "idle"
                       => /\ last'.op = "wait_for_page"
                          /\ last'.body = "wait"
                          /\ now >= handlers[h].deadline
           /\ IsClaim => /\ ~last'.notify
                         /\ last'.fired = {}
                         /\ handlers' = handlers ]_vars

\* a page waiter of the session still waits, not notified, after a page-set
\* with notify=false has replaced the page it waits on
C18_Witness ==
    /\ last.op = "set_page"
    /\ last.status = 200
    /\ last.branch = "update"
    /\ ~last.notify
    /\ \E h \in Handlers :
         /\ handlers[h].pc = "waiting"
         /\ handlers[h].kind = "wait_for_page"
         /\ handlers[h].session = last.session
         /\ handlers[h].notifier = sessions[last.session].page_notifier
         /\ ~handlers[h].notified
         /\ now < handlers[h].deadline

\* C19 as stated: an accepted response wakes every request that waits in
\* GET /responses of that session, changes no page wait and no poll of
\* another session, and a poll that starts to wait later starts not notified.
C19_WakesEveryPollerOfSession ==
    [][ /\ (last'.op = "respond" /\ last'.status = 200)
           => \A h \in Handlers :
                handlers[h].pc = "waiting"
                => IF /\ handlers[h].kind = "get_responses"
                      /\ handlers[h].session = last'.session
                   THEN handlers'[h].pc = "waiting" /\ handlers'[h].notified
                   ELSE handlers'[h] = handlers[h]
        /\ \A h \in Handlers :
              (handlers[h].pc = "idle" /\ handlers'[h].pc = "waiting")
              => ~handlers'[h].notified ]_vars

\* C19, amended: an accepted response wakes every request that waits in
\* GET /responses on the response_notifier of the record the session has at
\* that moment, and changes no other suspended request: no page wait, no
\* poll of another session, no poll that waits on the Notify object of a
\* record that has been replaced or removed.  A poll that starts to wait
\* starts not notified, whatever was submitted before; it becomes notified
\* only by the step of an accepted response to its record, and otherwise
\* ends its wait at its deadline.
C19_WakesPollersOfRecord ==
    [][ /\ (last'.op = "respond" /\ last'.status = 200)
           => \A h \in Handlers :
                handlers[h].pc = "waiting"
                => IF /\ handlers[h].kind = "get_responses"
                      /\ handlers[h].notifier
                            = sessions[last'.session].response_notifier
                   THEN /\ handlers[h].session = last'.session
                        /\ handlers'[h] = [handlers[h] EXCEPT !.notified = TRUE]
                   ELSE handlers'[h] = handlers[h]
        /\ \A h \in Handlers :
              /\ (handlers[h].pc = "idle" /\ handlers'[h].pc = "waiting")
                 => ~handlers'[h].notified
              /\ (/\ handlers[h].pc = "waiting"
                  /\ handlers[h].kind = "get_responses"
                  /\ ~handlers[h].notified)
                 => /\ handlers'[h].pc = "waiting" /\ handlers'[h].notified
                       => /\ last'.op = "respond"
                          /\ last'.status = 200
                          /\ last'.session = handlers[h].session
                    /\ handlers'[h].pc = "idle"
                       => now >= handlers[h].deadline ]_vars

\* an accepted response has woken both requests that poll its session
C19_Witness ==
    /\ last.op = "respond"
    /\ last.status = 200
    /\ \A h \in Handlers :
         /\ handlers[h].pc = "waiting"
         /\ handlers[h].kind = "get_responses"
         /\ handlers[h].session = last.session
         /\ handlers[h].notifier = sessions[last.session].response_notifier
         /\ handlers[h].notified

\* C20 as stated, for the poll whose sleep branch won: it is answered 200.
C20_TimedOutPollSucceeds ==
    [][\A h \in Handlers :
        ( /\ handlers[h].pc = "waiting"
          /\ handlers[h].kind = "get_responses"
          /\ ~handlers[h].notified
          /\ handlers'[h].pc = "idle" )
        => last'.status = 200 ]_vars

\* C20, amended: a request that waits with its deadline within the horizon
\* of the run returns.  No time passes while a branch of a select! is ready,
\* and some request that can run has its step enabled.  A page wait that
\* ends is answered 200, with "reload" only if notified and with "wait" only
\* at or after its deadline, and leaves the store as it was.  A poll that
\* ends, notified or timed out, is answered 200 with RetrievedResponses of
\* the record the session has at that moment, which may hold no response, if
\* the session is in the store, and 404 with the store unchanged if it is
\* not; its step changes the store by the scan alone, whichever branch won.
C20_LongPollReturns ==
    /\ \A h \in Handlers :
          (handlers[h].pc = "waiting" /\ handlers[h].deadline <= MaxTime)
              ~> (handlers[h].pc = "idle")
    /\ [](\A h \in Handlers :
            Runnable(h) => /\ ~ENABLED Tick
                           /\ \E g \in Handlers :
                                ENABLED (PollFinish(g) \/ WaitFinish(g)))
    /\ [][\A h \in Handlers :
            (handlers[h].pc = "waiting" /\ handlers'[h] # handlers[h])
            => \/ /\ handlers'[h].pc = "waiting"
                  /\ handlers'[h].deadline = handlers[h].deadline
                  /\ handlers'[h].notifier = handlers[h].notifier
                  /\ last'.op \in {"set_page", "respond"}
               \/ /\ handlers'[h] = Idle
                  /\ handlers[h].notified \/ now >= handlers[h].deadline
                  /\ <<sessions_capacity, arcs, boot>>'
                        = <<sessions_capacity, arcs, boot>>
                  /\ \A g \in Handlers \ {h} : handlers'[g] = handlers[g]
                  /\ IF handlers[h].kind = "wait_for_page"
                     THEN /\ last'.op = "wait_for_page"
                          /\ last'.status = 200
                          /\ last'.body \in {"reload", "wait"}
                          /\ last'.body = "reload" => handlers[h].notified
                          /\ last'.body = "wait" => now >= handlers[h].deadline
                          /\ sessions' = sessions
                     ELSE /\ last'.op = "get_responses"
                          /\ last'.waited
                          /\ IF handlers[h].session \in DOMAIN sessions
                             THEN /\ last'.status = 200
                                  /\ last'.response =
                                        RetrievedResponses(
                                            sessions[handlers[h].session],
                                            handlers[h].start)
                                  /\ sessions' =
                                        [sessions EXCEPT ![handlers[h].session] =
                                            ScannedSession(@, handlers[h].start)]
                             ELSE /\ last'.status = 404
                                  /\ sessions' = sessions ]_vars

\* a poll has ended at its deadline, not notified, with no response to
\* return, and was answered 200
C20_Witness ==
    /\ last.op = "get_responses"
    /\ last.waited
    /\ last.status = 200
    /\ DOMAIN last.response.responses_by_user = {}
    /\ last.session \in DOMAIN sessions
    /\ sessions[last.session].responses = EmptyMap
    /\ handlers[last.handler].pc = "idle"
    /\ now > 0

\* C21: the first lock section of a poll that finds its session makes the
\* request wait exactly if start >= next_response_id and
\* response_long_poll_duration is not zero; a request that does not wait
\* runs its second lock section before time passes.  The second lock section
\* looks the session up again: if it is gone the answer is 404 and the store
\* is as it was (nothing is created); if it is there the answer is 200 with
\* next_start and responses_by_user read from the record the store holds at
\* that moment.
C21_WaitsOnlyWithoutNews ==
    [][\A h \in Handlers :
        /\ (/\ last'.op = "get_responses_lookup"
            /\ last'.handler = h)
           => /\ last'.wait
                  <=> /\ last'.start >= sessions[last'.session].next_response_id
                      /\ settings.response_long_poll_duration # 0
              /\ handlers'[h].pc = IF last'.wait THEN "waiting" ELSE "ready"
              /\ sessions' = sessions
        /\ (/\ handlers[h].pc = "ready"
            /\ handlers[h].kind = "get_responses")
           => now' = now
        /\ (/\ handlers[h].pc \in {"ready", "waiting"}
            /\ handlers[h].kind = "get_responses"
            /\ handlers'[h].pc = "idle")
           => LET sid == handlers[h].session
                  start == handlers[h].start
              IN /\ last'.op = "get_responses"
                 /\ last'.waited <=> handlers[h].pc = "waiting"
                 /\ IF sid \notin DOMAIN sessions
                    THEN /\ last'.status = 404
                         /\ sessions' = sessions
                    ELSE /\ last'.status = 200
                         /\ DOMAIN sessions' = DOMAIN sessions
                         /\ last'.response.next_start
                                = sessions[sid].next_response_id
                         /\ DOMAIN last'.response.responses_by_user
                                = {u \in DOMAIN sessions[sid].responses :
                                      sessions[sid].responses[u].id >= start}
                         /\ \A u \in DOMAIN last'.response.responses_by_user :
                               last'.response.responses_by_user[u]
                                   = sessions[sid].responses[u].data ]_vars

\* a poll that waited is answered with a next_start beyond its start: the
\* record changed during the wait
C21_Witness ==
    /\ last.op = "get_responses"
    /\ last.waited
    /\ last.status = 200
    /\ last.response.next_start > last.start
    /\ DOMAIN last.response.responses_by_user # {}

\* C22: every request that reads or writes a session and is answered 200 (a
\* page read, a page-set, a response, a poll) leaves last_request of the
\* session at now.
C22_EveryUseRefreshes ==
    [][ (/\ last'.op \in {"get_page", "set_page", "respond", "get_responses"}
         /\ last'.status = 200)
        => /\ last'.session \in DOMAIN sessions'
           /\ sessions'[last'.session].last_request = now ]_vars

\* a page read was answered 200 with the page of a session whose
\* last_request is earlier than now
C22_Witness ==
    /\ last.op = "get_page"
    /\ last.status = 200
    /\ last.session \in DOMAIN sessions
    /\ last.body = sessions[last.session].page
    /\ sessions[last.session].last_request < now
    /\ sessions[last.session].last_request + settings.session_keep_alive_duration > now

\* C23: for the store of every reachable state and every memory ceiling,
\* the sweep leaves no session whose last_request is session_keep_alive or
\* more before now (so none that is older than that); and if twice the
\* counted memory of the sessions that are left is below the ceiling, the
\* sweep ends there: every session used less than session_keep_alive ago is
\* in the store as it was, with its responses, and the capacity of the map
\* is unchanged.  A tick of the cleanup task that ends in tier 0 changes the
\* store in that way and no suspended request.
C23_ExpiryThenStop ==
    /\ \A c \in MemoryCeilings :
          LET out == periodic_cleanup(sessions, sessions_capacity, c)
              fresh == {id \in DOMAIN sessions :
                           now - sessions[id].last_request
                               < settings.session_keep_alive_duration}
              left == [id \in fresh |-> sessions[id]]
          IN /\ DOMAIN out.sessions \subseteq fresh
             /\ 2 * count_user_memory_usage(left, sessions_capacity) < c
                   => /\ out.tier = 0
                      /\ out.sessions = left
                      /\ out.capacity = sessions_capacity
    /\ (last.op = "cleanup" /\ last.tier = 0)
          => /\ 2 * count_user_memory_usage(sessions, sessions_capacity)
                    < settings.max_memory_usage
             /\ \A id \in DOMAIN sessions :
                    now - sessions[id].last_request
                        < settings.session_keep_alive_duration

\* a tick that ended in tier 0 has left one of two sessions, with the
\* response it holds
C23_Witness ==
    /\ last.op = "cleanup"
    /\ last.tier = 0
    /\ arcs = 4
    /\ Cardinality(DOMAIN sessions) = 1
    /\ \E id \in DOMAIN sessions : sessions[id].responses # EmptyMap

\* C24: for the store of every reachable state and every memory ceiling
\* under which the sweep ends in tier 1, each session that is left has
\* lost exactly the responses that were delivered and were submitted
\* ResponseGrace or more before now; every undelivered response and every
\* delivered one submitted less than ResponseGrace ago is kept.
C24_FreesOnlyDeliveredOld ==
    \A c \in MemoryCeilings \cup {settings.max_memory_usage} :
        LET out == periodic_cleanup(sessions, sessions_capacity, c)
        IN out.tier = 1 =>
              \A id \in DOMAIN out.sessions :
                  DOMAIN out.sessions[id].responses =
                      {u \in DOMAIN sessions[id].responses :
                          ~ /\ sessions[id].responses[u].was_received
                            /\ sessions[id].responses[u].time + ResponseGrace
                                   <= now}

\* the cleanup task is about to run a tick that ends in tier 1 and drops a
\* response no poll has returned
C24_Witness ==
    /\ ENABLED Cleanup
    /\ do_periodic_cleanup.tier = 1
    /\ \E id \in DOMAIN do_periodic_cleanup.sessions :
          \E u \in DOMAIN sessions[id].responses :
              /\ ~sessions[id].responses[u].was_received
              /\ u \notin DOMAIN do_periodic_cleanup.sessions[id].responses

\* C25: for the store of every reachable state and every memory ceiling,
\* the sweep goes beyond tier 0 only if twice the counted memory after tier
\* 0 is at or above the ceiling, and it runs tier 2 exactly if the estimate
\* is at or above the ceiling after tier 0 and again after tier 1; when
\* tier 2 has run, the sessions left are exactly those that tier 0 left and
\* that were used less than AttackKeepAlive ago, each with the responses
\* tier 1 left it.
C25_TiersEscalate ==
    \A c \in MemoryCeilings \cup {settings.max_memory_usage} :
        LET out == periodic_cleanup(sessions, sessions_capacity, c)
            left == [id \in {i \in DOMAIN sessions :
                                now - sessions[i].last_request
                                    < settings.session_keep_alive_duration}
                        |-> sessions[id]]
            freed == FreeResponses(left)
            after0 == 2 * count_user_memory_usage(left, sessions_capacity)
            after1 == 2 * count_user_memory_usage(freed, sessions_capacity)
        IN /\ out.tier \in {0, 1, 2}
           /\ out.tier >= 1 => after0 >= c
           /\ out.tier = 2 <=> (after0 >= c /\ after1 >= c)
           /\ out.tier = 2 =>
                 /\ DOMAIN out.sessions =
                        {id \in DOMAIN left :
                            now - sessions[id].last_request < AttackKeepAlive}
                 /\ \A id \in DOMAIN out.sessions :
                        out.sessions[id].responses = freed[id].responses

\* the cleanup task is about to run a tick that ends in tier 2, which
\* removes a session that tier 0 left
C25_Witness ==
    /\ ENABLED Cleanup
    /\ do_periodic_cleanup.tier = 2
    /\ \E id \in DOMAIN sessions :
          /\ now - sessions[id].last_request
                 < settings.session_keep_alive_duration
          /\ now - sessions[id].last_request >= AttackKeepAlive
          /\ id \notin DOMAIN do_periodic_cleanup.sessions

\* C26: whenever POST /new is about to claim an id that it generated, the
\* id has 6 digits in the first three attempts (retry_i 0, 1, 2), 7 digits
\* in the fourth (retry_i 3) and 8 digits in the fifth (retry_i 4).
C26_LengthGrowsAfterThree ==
    boot.pc = "claiming" =>
        /\ (last.op = "init_session" /\ ~last.parsed) => Len(boot.session) = 6
        /\ boot.retry_i \in {1, 2} => Len(boot.session) = 6
        /\ boot.retry_i = 3 => Len(boot.session) = 7
        /\ boot.retry_i = 4 => Len(boot.session) = 8

\* the fifth attempt is about to claim an id of 7 digits
C26_Witness ==
    /\ boot.pc = "claiming"
    /\ boot.retry_i = 4
    /\ Len(boot.session) = 7

\* C27: in every step, a session that is in the store before and after
\* the step has the access_token it had, unless the step is a page-set for
\* this session that answers 200, carries a token different from the
\* session's, is served when token_timeout has passed since the session's
\* last_request, and leaves its own token in the record.  So no response
\* submit, poll, page read, page wait, same-token or rejected page-set and
\* no tick of the cleanup changes the token of a session it leaves.
C27_TokenChangesOnlyByTakeover ==
    [][\A sid \in DOMAIN sessions \cap DOMAIN sessions' :
          sessions'[sid].access_token # sessions[sid].access_token
              => /\ last'.op = "set_page"
                 /\ last'.session = sid
                 /\ last'.status = 200
                 /\ last'.token # sessions[sid].access_token
                 /\ sessions[sid].last_request + settings.token_timeout <= now
                 /\ sessions'[sid].access_token = last'.token]_vars

\* a page-set with the second token has taken over a session
C27_Witness ==
    /\ last.op = "set_page"
    /\ last.status = 200
    /\ last.branch = "new"
    /\ last.token = "token-two-"
    /\ sessions[last.session].access_token = "token-two-"
    /\ now >= settings.token_timeout

\* C28: in every reachable state every response of a session has an id
\* below the session's next_response_id and no two responses of a session
\* have the same id; and every accepted response submission, in whatever
\* order the submissions take the lock, stores its response with the id
\* that was the session's next_response_id and leaves next_response_id one
\* higher, and the other responses of the session as they were.
C28_IdsInLockOrder ==
    /\ [](\A sid \in DOMAIN sessions :
            LET s == sessions[sid] IN
            /\ \A u \in DOMAIN s.responses : s.responses[u].id < s.next_response_id
            /\ \A u, v \in DOMAIN s.responses :
                   s.responses[u].id = s.responses[v].id => u = v)
    /\ [][(last'.op = "respond" /\ last'.status = 200) =>
            LET sid == last'.session
                user == last'.user
            IN /\ sid \in DOMAIN sessions
               /\ sessions'[sid].next_response_id = sessions[sid].next_response_id + 1
               /\ sessions'[sid].responses[user].id = sessions[sid].next_response_id
               /\ \A u \in DOMAIN sessions'[sid].responses \ {user} :
                      /\ u \in DOMAIN sessions[sid].responses
                      /\ sessions'[sid].responses[u] = sessions[sid].responses[u]]_vars

\* two users' submissions were accepted one after the other, the second
\* of them last
C28_Witness ==
    /\ last.op = "respond"
    /\ last.status = 200
    /\ sessions[last.session].next_response_id = 2
    /\ Cardinality(DOMAIN sessions[last.session].responses) = 2
    /\ sessions[last.session].responses[last.user].id = 1

C30_AbandonedSessionReclaimable ==
    [][\A sid \in DOMAIN sessions \cap DOMAIN sessions' :
          (/\ now - sessions[sid].last_request > settings.token_timeout
           /\ ~(last'.op = "set_page" /\ last'.session = sid))
          => \A token \in env.tokens, page \in env.pages :
                (/\ AccessToken_from_string(token) = Ok
                 /\ token # sessions[sid].access_token
                 /\ Len(page) <= settings.max_page_size)
                => set_page_route(page, sid, "none", token)'.status = 200]_vars

\* a session that no request has used for longer than token_timeout, which
\* another token could take over now, is about to accept a response that
\* leaves it held by its token
C30_Witness ==
    \E sid \in DOMAIN sessions :
        /\ now - sessions[sid].last_request > settings.token_timeout
        /\ sessions[sid].access_token = "token-one-"
        /\ set_page_route("page 1", sid, "none", "token-two-").status = 200
        /\ ENABLED Respond("42", sid, "u1")
        /\ post_respond_route("42", sid, "u1").status = 200
        /\ TokenHolds(AcceptResponse(sessions[sid], "u1", "42"))

\* C31 as stated: a page-set with well-formed token and session id whose
\* page is longer than max_page_size is answered 413 and changes nothing in
\* the store, and in every reachable state every stored page is at most
\* max_page_size long.
C31_StoredPageWithinCeiling ==
    /\ [](\A sid \in DOMAIN sessions :
            Len(sessions[sid].page) <= settings.max_page_size)
    /\ [][( /\ last'.op = "set_page"
            /\ AccessToken_from_string(last'.token) = Ok
            /\ SessionID_from_string(last'.session) = Ok
            /\ Len(last'.page) > settings.max_page_size )
          => /\ last'.status = 413
             /\ UNCHANGED <<sessions, sessions_capacity, arcs, handlers>>]_vars

\* C31: a page-set with well-formed token and session id whose page is
\* longer than max_page_size is answered 413 and changes nothing in the
\* store; a page-set that is answered 200 carried a page of at most
\* max_page_size; and in every reachable state every stored page is at most
\* max_page_size plus the length of the injected text long.
C31_StoredPageWithinCeilingAndInjection ==
    /\ [](\A sid \in DOMAIN sessions :
            Len(sessions[sid].page)
                <= settings.max_page_size + Len(polli_live_injection))
    /\ [][( /\ last'.op = "set_page"
            /\ AccessToken_from_string(last'.token) = Ok
            /\ SessionID_from_string(last'.session) = Ok
            /\ Len(last'.page) > settings.max_page_size )
          => /\ last'.status = 413
             /\ UNCHANGED <<sessions, sessions_capacity, arcs, handlers>>]_vars
    /\ [][(last'.op = "set_page" /\ last'.status = 200)
          => Len(last'.page) <= settings.max_page_size]_vars

\* a page-set was answered 413 while the store holds a page that the
\* injection has made longer than max_page_size
C31_Witness ==
    /\ last.op = "set_page"
    /\ last.status = 413
    /\ Len(last.page) > settings.max_page_size
    /\ \E sid \in DOMAIN sessions :
          /\ Len(sessions[sid].page) > settings.max_page_size
          /\ sessions[sid].page # last.page

\* C32: a page-set with the token of the session (the update branch)
\* leaves the session without responses and with the next_response_id and
\* the Notify objects it had; as long as the client that follows next_start
\* has polled no other record of the session, the next_start it holds is
\* at most the session's next_response_id; and every response that is
\* accepted then, after however many such page-sets, gets an id that is at
\* least that next_start.
C32_UpdateKeepsCursorValid ==
    /\ [][(last'.op = "set_page" /\ last'.branch = "update") =>
            LET sid == last'.session IN
            /\ sid \in DOMAIN sessions
            /\ sessions[sid].access_token = last'.token
            /\ sessions'[sid].responses = EmptyMap
            /\ sessions'[sid].next_response_id = sessions[sid].next_response_id
            /\ sessions'[sid].response_notifier = sessions[sid].response_notifier]_vars
    /\ [](\A sid \in DOMAIN sessions :
            poller.records = {sessions[sid].response_notifier}
                => poller.cursor <= sessions[sid].next_response_id)
    /\ [][(/\ last'.op = "respond"
           /\ last'.status = 200
           /\ poller.records = {sessions[last'.session].response_notifier})
          => sessions'[last'.session].responses[last'.user].id >= poller.cursor]_vars

\* the owner has updated the page of a session of which a poll had
\* returned next_start 1: the responses are gone, the next id is still 1
C32_Witness ==
    /\ last.op = "set_page"
    /\ last.branch = "update"
    /\ sessions[last.session].responses = EmptyMap
    /\ sessions[last.session].next_response_id >= 1
    /\ poller.records = {sessions[last.session].response_notifier}
    /\ poller.cursor = sessions[last.session].next_response_id

\* C33: for the store of every reachable state and every memory ceiling,
\* the sessions the sweep leaves are sessions of the store, each with the
\* page, access_token, next_response_id, last_request and Notify objects it
\* had, and its responses are responses it had, each with the data, id,
\* was_received and time it had; and a tick of the cleanup task changes
\* the store in that way and nothing else but the capacities.
C33_SweepOnlyRemoves ==
    /\ [](\A c \in MemoryCeilings \cup {settings.max_memory_usage} :
            LET out == periodic_cleanup(sessions, sessions_capacity, c).sessions
            IN /\ DOMAIN out \subseteq DOMAIN sessions
               /\ \A id \in DOMAIN out :
                    /\ out[id].page = sessions[id].page
                    /\ out[id].access_token = sessions[id].access_token
                    /\ out[id].next_response_id = sessions[id].next_response_id
                    /\ out[id].last_request = sessions[id].last_request
                    /\ out[id].response_notifier = sessions[id].response_notifier
                    /\ out[id].page_notifier = sessions[id].page_notifier
                    /\ DOMAIN out[id].responses \subseteq DOMAIN sessions[id].responses
                    /\ \A u \in DOMAIN out[id].responses :
                           out[id].responses[u] = sessions[id].responses[u])
    /\ [][last'.op = "cleanup" =>
            /\ DOMAIN sessions' \subseteq DOMAIN sessions
            /\ \A id \in DOMAIN sessions' :
                 /\ [sessions'[id] EXCEPT !.responses = EmptyMap,
                                          !.responses_capacity = 0]
                      = [sessions[id] EXCEPT !.responses = EmptyMap,
                                             !.responses_capacity = 0]
                 /\ DOMAIN sessions'[id].responses \subseteq DOMAIN sessions[id].responses
                 /\ \A u \in DOMAIN sessions'[id].responses :
                        sessions'[id].responses[u] = sessions[id].responses[u]
            /\ UNCHANGED <<now, arcs, handlers, poller, boot>>]_vars

\* the cleanup task is about to run a tick that frees one response of a
\* session and leaves another
C33_Witness ==
    /\ ENABLED Cleanup
    /\ do_periodic_cleanup.tier >= 1
    /\ \E id \in DOMAIN do_periodic_cleanup.sessions :
          /\ do_periodic_cleanup.sessions[id].responses # EmptyMap
          /\ DOMAIN do_periodic_cleanup.sessions[id].responses
                 # DOMAIN sessions[id].responses

\* C34: if session_keep_alive_duration is at least AttackKeepAlive, then
\* for the store of every reachable state and every memory ceiling, every
\* session whose last_request is less than AttackKeepAlive before now is
\* among the sessions the sweep leaves; and a tick of the cleanup task
\* leaves every such session in the store, whichever tier it ends in.
C34_RecentSessionSurvives ==
    /\ [](settings.session_keep_alive_duration >= AttackKeepAlive =>
            \A c \in MemoryCeilings \cup {settings.max_memory_usage} :
                \A id \in DOMAIN sessions :
                    now - sessions[id].last_request < AttackKeepAlive
                        => id \in DOMAIN periodic_cleanup(sessions,
                                             sessions_capacity, c).sessions)
    /\ [][(/\ last'.op = "cleanup"
           /\ settings.session_keep_alive_duration >= AttackKeepAlive)
          => \A id \in DOMAIN sessions :
                now - sessions[id].last_request < AttackKeepAlive
                    => id \in DOMAIN sessions']_vars

\* a tick of the cleanup task has ended in tier 2 and has left the session
\* on which a response or a poll had completed at this time
C34_Witness ==
    /\ last.op = "cleanup"
    /\ last.tier = 2
    /\ settings.session_keep_alive_duration >= AttackKeepAlive
    /\ now >= 1
    /\ \E id \in DOMAIN sessions :
          /\ sessions[id].last_request = now
          /\ sessions[id].next_response_id >= 1

====
